---------------------------- MODULE Spec2Model ----------------------------
(***************************************************************************)
(* Match state engine of the darts scorekeeper (src/state.ts, models.ts).  *)
(* A Set holds two players, the game configuration and the current leg;    *)
(* a leg holds the ordered turn history.  The turn id counter nextTurnId   *)
(* is a module-level variable of state.ts, outside every Set.              *)
(***************************************************************************)
EXTENDS Integers, Sequences, FiniteSets, TLC

(* ------------------------------ bounds --------------------------------- *)
\* longest turn history of one leg that the model records
MaxTurns == 4
\* largest maxLegs passed to startNewSet
MaxMaxLegs == 3
\* longest turn history of a leg when two Sets are played side by side
MaxTwoTurns == 2

\* the values of points passed to addTurn: a negative and a zero throw, and
\* two scores that are non-finishing, finishing (301 at once, 501 as
\* 200 + 301) or overshooting depending on the remaining score
PointsValues == {-1, 0, 200, 301}

\* the values of points thrown when two Sets are played side by side
TwoPoints == {200, 301}

\* the pairs of names passed to startNewSet: an empty and a padded name
NameInputs ==
    { << <<>>, <<" ", " ", "B", "o", "b", " ", " ">> >> }

(* --------------------------- program values ---------------------------- *)
\* null (winnerPlayerId: number | null, winner: Player | null)
Null == 0
\* type GameType = 301 | 501
GameType == {301, 501}

\* setState: the Set the caller plays on; nextTurnId: the module-level
\* counter; ret: what the last addTurn(setState, ...) returned; otherSet: a
\* second Set built by startNewSet in the same process, if any (a sequence
\* of length 0 or 1)
VARIABLES setState, nextTurnId, ret, otherSet

vars == <<setState, nextTurnId, ret, otherSet>>

(* currentLeg: LegState | null is a sequence of length 0 (null) or 1. *)
NoLeg == <<>>
HasLeg(s) == s.currentLeg # NoLeg
LegOf(s) == s.currentLeg[1]

(* the value addTurn returns when it does nothing *)
NoResult == [legFinished |-> FALSE, winner |-> Null]

(* ------------------------------ helpers -------------------------------- *)
RECURSIVE RemainingLoop(_, _, _)
\* the for-loop of getRemainingScoreForPlayer over the rest of the turns
RemainingLoop(turns, playerId, remaining) ==
    IF turns = <<>> THEN remaining
    ELSE RemainingLoop(Tail(turns), playerId,
                       IF Head(turns).playerId = playerId
                       THEN remaining - Head(turns).points
                       ELSE remaining)

getRemainingScoreForPlayer(leg, playerId) ==
    RemainingLoop(leg.turns, playerId, leg.startingScore)

\* createNewLeg: the leg it returns (it also sets nextTurnId to 1)
createNewLeg(s, legNumber) ==
    [legNumber |-> legNumber,
     startingScore |-> s.gameType,
     turns |-> <<>>,
     isFinished |-> FALSE,
     currentPlayerIndex |-> 0]

(* Names are sequences of one-character strings. *)
RECURSIVE TrimStart(_)
TrimStart(str) ==
    IF str # <<>> /\ Head(str) = " " THEN TrimStart(Tail(str)) ELSE str

RECURSIVE TrimEnd(_)
TrimEnd(str) ==
    IF str # <<>> /\ str[Len(str)] = " "
    THEN TrimEnd(SubSeq(str, 1, Len(str) - 1)) ELSE str

\* String.prototype.trim, for blanks
trim(str) == TrimEnd(TrimStart(str))

\* "Player 1", "Player 2"
DefaultName(id) ==
    <<"P", "l", "a", "y", "e", "r", " ">> \o (IF id = 1 THEN <<"1">> ELSE <<"2">>)

\* name.trim() || "Player n": the empty string is falsy
NameOrDefault(name, id) ==
    IF trim(name) = <<>> THEN DefaultName(id) ELSE trim(name)

\* startNewSet: the Set it returns (createNewLeg also sets nextTurnId to 1)
startNewSet(player1Name, player2Name, gameType, maxLegs) ==
    LET players == << [id |-> 1, name |-> NameOrDefault(player1Name, 1), legsWon |-> 0],
                      [id |-> 2, name |-> NameOrDefault(player2Name, 2), legsWon |-> 0] >>
        s0 == [players |-> players,
               gameType |-> gameType,
               maxLegs |-> maxLegs,
               currentLeg |-> NoLeg,
               isFinished |-> FALSE,
               winnerPlayerId |-> Null]
    IN [s0 EXCEPT !.currentLeg = << createNewLeg(s0, 1) >>]

RECURSIVE WinnerScan(_, _, _)
\* the for-loop of updateSetWinner from player k (1-based) on
WinnerScan(s, neededLegs, k) ==
    IF k > Len(s.players) THEN s
    ELSE IF s.players[k].legsWon >= neededLegs
         THEN [s EXCEPT !.isFinished = TRUE,
                        !.winnerPlayerId = s.players[k].id]
         ELSE WinnerScan(s, neededLegs, k + 1)

\* variant: half of the legs, not a majority, wins the set
updateSetWinner_Half(s) ==
    LET neededLegs == s.maxLegs \div 2
    IN WinnerScan(s, neededLegs, 1)

updateSetWinner(s) ==
    LET neededLegs == (s.maxLegs \div 2) + 1
    IN WinnerScan(s, neededLegs, 1)

\* variant: the below-zero test is missing
IsBust_Never(remainingAfter) == FALSE

\* the remainingAfter < 0 test of addTurn
IsBust(remainingAfter) == remainingAfter < 0

\* variant: a remaining score of one also counts as a checkout
IsCheckout_AtMostOne(remainingAfter) == remainingAfter <= 1

\* the remainingAfter === 0 test of addTurn
IsCheckout(remainingAfter) == remainingAfter = 0

\* addTurn, recording: the new Turn pushed on the leg's turns
RecordTurn(s, nextId, playerId, points, remainingAfter) ==
    LET turn == [id |-> nextId,
                 playerId |-> playerId,
                 points |-> points,
                 runningScore |-> remainingAfter]
    IN [s EXCEPT !.currentLeg[1].turns = Append(@, turn)]

\* variant: the checkout branch also rotates to the next player
FinishLeg_Rotates(s) ==
    LET index == LegOf(s).currentPlayerIndex
        s1 == [s EXCEPT !.currentLeg[1].isFinished = TRUE,
                        !.currentLeg[1].currentPlayerIndex = (@ + 1) % Len(s.players),
                        !.players[index + 1].legsWon = @ + 1]
    IN updateSetWinner(s1)

\* variant: the leg win is not counted
FinishLeg_NoScore(s) ==
    updateSetWinner([s EXCEPT !.currentLeg[1].isFinished = TRUE])

\* addTurn, checkout branch: the leg is finished, the current player wins it
FinishLeg(s) ==
    LET index == LegOf(s).currentPlayerIndex
        s1 == [s EXCEPT !.currentLeg[1].isFinished = TRUE,
                        !.players[index + 1].legsWon = @ + 1]
    IN updateSetWinner(s1)

\* variant: the player is not rotated
RotatePlayer_Stays(s) == s

\* addTurn, else branch: rotate to the next player
RotatePlayer(s) ==
    [s EXCEPT !.currentLeg[1].currentPlayerIndex = (@ + 1) % Len(s.players)]

\* variant: the finished-leg test is missing
AddIsNoop_IgnoresLegFinished(s) ==
    ~HasLeg(s) \/ s.isFinished

\* the first early-return test of addTurn
AddIsNoop(s) ==
    ~HasLeg(s) \/ s.isFinished \/ LegOf(s).isFinished

\* addTurn: the Set, the id counter and the returned value after the call
addTurn(s, nextId, points) ==
    IF AddIsNoop(s)
    THEN [setState |-> s, nextTurnId |-> nextId, ret |-> NoResult]
    ELSE
      LET leg == LegOf(s)
          currentPlayer == s.players[leg.currentPlayerIndex + 1]
          remainingBefore == getRemainingScoreForPlayer(leg, currentPlayer.id)
          remainingAfter == remainingBefore - points
      IN IF IsBust(remainingAfter)
         THEN [setState |-> s, nextTurnId |-> nextId, ret |-> NoResult]
         ELSE
           LET s1 == RecordTurn(s, nextId, currentPlayer.id, points, remainingAfter)
           IN IF IsCheckout(remainingAfter)
              THEN [setState |-> FinishLeg(s1),
                    nextTurnId |-> nextId + 1,
                    ret |-> [legFinished |-> TRUE, winner |-> currentPlayer.id]]
              ELSE [setState |-> RotatePlayer(s1),
                    nextTurnId |-> nextId + 1,
                    ret |-> NoResult]

RECURSIVE ReplayLoop_NoCarry(_, _, _)
\* variant: the updated remaining score is not stored back for the player
ReplayLoop_NoCarry(turns, remainingScores, done) ==
    IF turns = <<>> THEN done
    ELSE LET t == Head(turns)
             currentRemaining == remainingScores[t.playerId]
             updated == currentRemaining - t.points
         IN ReplayLoop_NoCarry(Tail(turns), remainingScores,
                               Append(done, [t EXCEPT !.runningScore = updated]))

RECURSIVE ReplayLoop(_, _, _)
\* the second for-loop of removeLastTurn: rewrites each turn's runningScore
\* from the per-player remainingScores; done holds the turns already rewritten
ReplayLoop(turns, remainingScores, done) ==
    IF turns = <<>> THEN done
    ELSE LET t == Head(turns)
             currentRemaining == remainingScores[t.playerId]
             updated == currentRemaining - t.points
         IN ReplayLoop(Tail(turns),
                       [remainingScores EXCEPT ![t.playerId] = updated],
                       Append(done, [t EXCEPT !.runningScore = updated]))

RECURSIVE FindIndexFrom_OneBased(_, _, _)
\* variant: the position is counted from one
FindIndexFrom_OneBased(players, playerId, k) ==
    IF k > Len(players) THEN -1
    ELSE IF players[k].id = playerId THEN k
         ELSE FindIndexFrom_OneBased(players, playerId, k + 1)

RECURSIVE FindIndexFrom(_, _, _)
\* players.findIndex(p => p.id === playerId), 0-based, -1 when absent
FindIndexFrom(players, playerId, k) ==
    IF k > Len(players) THEN -1
    ELSE IF players[k].id = playerId THEN k - 1
         ELSE FindIndexFrom(players, playerId, k + 1)

findIndex(players, playerId) == FindIndexFrom(players, playerId, 1)

\* variant: the finished-leg test is missing
RemoveIsNoop_IgnoresFinished(s) ==
    ~HasLeg(s) \/ Len(LegOf(s).turns) = 0

\* the early-return test of removeLastTurn
RemoveIsNoop(s) ==
    ~HasLeg(s) \/ Len(LegOf(s).turns) = 0 \/ LegOf(s).isFinished

\* removeLastTurn: the Set and the id counter after the call
removeLastTurn(s, nextId) ==
    IF RemoveIsNoop(s)
    THEN [setState |-> s, nextTurnId |-> nextId]
    ELSE
      LET leg == LegOf(s)
          popped == SubSeq(leg.turns, 1, Len(leg.turns) - 1)
          remainingScores == [id \in {s.players[i].id : i \in 1..Len(s.players)}
                                |-> leg.startingScore]
          turns1 == ReplayLoop(popped, remainingScores, <<>>)
          index1 == IF Len(turns1) = 0 THEN 0
                    ELSE LET lastTurn == turns1[Len(turns1)]
                             lastPlayerIndex == findIndex(s.players, lastTurn.playerId)
                         IN (lastPlayerIndex + 1) % Len(s.players)
      IN [setState |-> [s EXCEPT !.currentLeg[1].turns = turns1,
                                 !.currentLeg[1].currentPlayerIndex = index1],
          nextTurnId |-> 1]

canStartNextLeg(s) ==
    IF ~HasLeg(s) \/ ~LegOf(s).isFinished \/ s.isFinished THEN FALSE ELSE TRUE

\* startNextLeg: the Set and the id counter after the call
startNextLeg(s, nextId) ==
    IF ~HasLeg(s) \/ ~LegOf(s).isFinished \/ s.isFinished
    THEN [setState |-> s, nextTurnId |-> nextId]
    ELSE LET nextLegNumber == LegOf(s).legNumber + 1
         IN IF nextLegNumber > s.maxLegs
            THEN [setState |-> s, nextTurnId |-> nextId]
            ELSE [setState |-> [s EXCEPT !.currentLeg = << createNewLeg(s, nextLegNumber) >>],
                  nextTurnId |-> 1]

\* variant: the winner is not cleared
resetSet_KeepsWinner(s) ==
    [s EXCEPT !.players = [i \in 1..Len(s.players) |-> [s.players[i] EXCEPT !.legsWon = 0]],
              !.isFinished = FALSE,
              !.currentLeg = NoLeg]

\* resetSet: the Set after the call
resetSet(s) ==
    [s EXCEPT !.players = [i \in 1..Len(s.players) |-> [s.players[i] EXCEPT !.legsWon = 0]],
              !.isFinished = FALSE,
              !.winnerPlayerId = Null,
              !.currentLeg = NoLeg]

(* ------------------------------ actions -------------------------------- *)
Init ==
    /\ \E names \in NameInputs, g \in GameType, m \in 1..MaxMaxLegs :
          setState = startNewSet(names[1], names[2], g, m)
    /\ nextTurnId = 1
    /\ ret = NoResult
    /\ otherSet = <<>>

AddTurn(points) ==
    LET r == addTurn(setState, nextTurnId, points)
    IN /\ HasLeg(r.setState) => Len(LegOf(r.setState).turns) <= MaxTurns
       /\ setState' = r.setState
       /\ nextTurnId' = r.nextTurnId
       /\ ret' = r.ret
       /\ UNCHANGED otherSet

RemoveLastTurn ==
    LET r == removeLastTurn(setState, nextTurnId)
    IN /\ setState' = r.setState
       /\ nextTurnId' = r.nextTurnId
       /\ UNCHANGED <<ret, otherSet>>

StartNextLeg ==
    LET r == startNextLeg(setState, nextTurnId)
    IN /\ setState' = r.setState
       /\ nextTurnId' = r.nextTurnId
       /\ UNCHANGED <<ret, otherSet>>

ResetSet ==
    /\ setState' = resetSet(setState)
    /\ UNCHANGED <<nextTurnId, ret, otherSet>>

Next ==
    \/ \E points \in PointsValues : AddTurn(points)
    \/ RemoveLastTurn
    \/ StartNextLeg
    \/ ResetSet

Spec == Init /\ [][Next]_vars

(* -------- two Sets in one process: both use the counter nextTurnId ------ *)
\* one Set of two legs is being played
InitTwo ==
    /\ \E g \in GameType : setState = startNewSet(<<>>, <<>>, g, 2)
    /\ nextTurnId = 1
    /\ ret = NoResult
    /\ otherSet = <<>>

\* the caller builds a second Set: startNewSet runs createNewLeg, which
\* sets nextTurnId to 1
StartOtherSet ==
    /\ \E g \in GameType : otherSet' = << startNewSet(<<>>, <<>>, g, 1) >>
    /\ nextTurnId' = 1
    /\ UNCHANGED <<setState, ret>>

\* addTurn on the second Set
OtherAddTurn(points) ==
    /\ otherSet # <<>>
    /\ LET r == addTurn(otherSet[1], nextTurnId, points)
       IN /\ Len(LegOf(r.setState).turns) <= MaxTwoTurns
          /\ otherSet' = << r.setState >>
          /\ nextTurnId' = r.nextTurnId
    /\ UNCHANGED <<setState, ret>>

\* removeLastTurn on the second Set
OtherRemoveLastTurn ==
    /\ otherSet # <<>>
    /\ LET r == removeLastTurn(otherSet[1], nextTurnId)
       IN /\ otherSet' = << r.setState >>
          /\ nextTurnId' = r.nextTurnId
    /\ UNCHANGED <<setState, ret>>

OtherStep ==
    \/ StartOtherSet
    \/ \E points \in TwoPoints : OtherAddTurn(points)
    \/ OtherRemoveLastTurn

\* the first Set's leg has room for another turn
RoomForTurn ==
    HasLeg(setState) => Len(LegOf(setState).turns) < MaxTwoTurns

NextTwo ==
    \/ \E points \in TwoPoints : RoomForTurn /\ AddTurn(points)
    \/ RemoveLastTurn
    \/ StartNextLeg
    \/ ResetSet
    \/ StartOtherSet
    \/ \E points \in TwoPoints : OtherAddTurn(points)
    \/ OtherRemoveLastTurn

SpecTwo == InitTwo /\ [][NextTwo]_vars

(* ----------------------------- properties ------------------------------ *)
PlayerIds == {setState.players[i].id : i \in 1..Len(setState.players)}

RECURSIVE SumPointsUpTo(_, _, _)
\* sum of the points of playerId's turns among the first k turns
SumPointsUpTo(turns, playerId, k) ==
    IF k = 0 THEN 0
    ELSE SumPointsUpTo(turns, playerId, k - 1)
         + (IF turns[k].playerId = playerId THEN turns[k].points ELSE 0)

\* the acting player's remaining score in the current leg
ActingRemaining ==
    getRemainingScoreForPlayer(LegOf(setState),
        setState.players[LegOf(setState).currentPlayerIndex + 1].id)

\* addTurn would pass its first early return
LegOpen ==
    HasLeg(setState) /\ ~setState.isFinished /\ ~LegOf(setState).isFinished

\* C1: every turn's runningScore is startingScore minus the sum of its
\* player's points up to and including it, and getRemainingScoreForPlayer is
\* startingScore minus the sum of all of the player's points.
C1_RunningScore ==
    HasLeg(setState) =>
      LET leg == LegOf(setState)
          n == Len(leg.turns)
      IN /\ \A k \in 1..n :
               leg.turns[k].runningScore =
                 leg.startingScore - SumPointsUpTo(leg.turns, leg.turns[k].playerId, k)
         /\ \A id \in PlayerIds :
               getRemainingScoreForPlayer(leg, id) =
                 leg.startingScore - SumPointsUpTo(leg.turns, id, n)

\* a leg rewound by removeLastTurn (the counter is back at 1) that still holds
\* two scoring turns of one player
C1_Witness ==
    /\ HasLeg(setState)
    /\ nextTurnId = 1
    /\ Len(LegOf(setState).turns) >= 3
    /\ LegOf(setState).turns[1].points > 0
    /\ LegOf(setState).turns[3].points > 0
    /\ LegOf(setState).turns[3].runningScore < LegOf(setState).turns[1].runningScore

\* C2: addTurn with points above the acting player's remaining score, on an
\* unfinished leg of an unfinished set, changes neither the Set nor the id
\* counter and returns {legFinished: false, winner: null}.
C2_RejectedTurn ==
    [][\A p \in PointsValues :
          (LegOpen /\ p > ActingRemaining /\ AddTurn(p))
             => /\ setState' = setState
                /\ nextTurnId' = nextTurnId
                /\ ret' = NoResult]_vars

\* an open leg with recorded turns where a throw of the input set overshoots
C2_Witness ==
    /\ LegOpen
    /\ Len(LegOf(setState).turns) >= 2
    /\ nextTurnId > 1
    /\ \E p \in PointsValues : p > ActingRemaining /\ ActingRemaining < 301

\* C3: every player's remaining score and every recorded runningScore is
\* at least zero, whatever integer points addTurn was given.
C3_NeverNegative ==
    HasLeg(setState) =>
      LET leg == LegOf(setState)
      IN /\ \A id \in PlayerIds : getRemainingScoreForPlayer(leg, id) >= 0
         /\ \A k \in 1..Len(leg.turns) : leg.turns[k].runningScore >= 0

\* a leg holding a negative throw, a zero throw and a scoring throw
C3_Witness ==
    /\ HasLeg(setState)
    /\ \E i, j, k \in 1..Len(LegOf(setState).turns) :
          /\ LegOf(setState).turns[i].points < 0
          /\ LegOf(setState).turns[j].points = 0
          /\ LegOf(setState).turns[k].points > 0

\* the thrower of the last turn of the current leg
LastThrower(s) == LegOf(s).turns[Len(LegOf(s).turns)].playerId

\* this step takes the current leg from unfinished to finished
LegFinishes ==
    /\ HasLeg(setState) /\ ~LegOf(setState).isFinished
    /\ HasLeg(setState') /\ LegOf(setState').isFinished
    /\ LegOf(setState').legNumber = LegOf(setState).legNumber

\* C4: the leg is finished iff some player's remaining score is exactly zero;
\* that player threw the last turn of the leg and is the winner returned by
\* the addTurn call that finished the leg.
C4_LegFinishedIffZero ==
    /\ [](HasLeg(setState) =>
            LET leg == LegOf(setState)
            IN /\ leg.isFinished <=>
                    \E id \in PlayerIds : getRemainingScoreForPlayer(leg, id) = 0
               /\ \A id \in PlayerIds :
                    getRemainingScoreForPlayer(leg, id) = 0
                      => Len(leg.turns) > 0 /\ id = LastThrower(setState))
    /\ [][LegFinishes =>
            /\ \E p \in PointsValues : AddTurn(p)
            /\ ret'.legFinished
            /\ ret'.winner = LastThrower(setState')
            /\ getRemainingScoreForPlayer(LegOf(setState'), ret'.winner) = 0]_vars

\* a leg finished by the second player after several turns
C4_Witness ==
    /\ HasLeg(setState) /\ LegOf(setState).isFinished
    /\ Len(LegOf(setState).turns) >= 4
    /\ LastThrower(setState) = 2
    /\ ret = [legFinished |-> TRUE, winner |-> 2]

\* C5: a finished leg never becomes unfinished again (so one addTurn call
\* at most finishes it); the finishing call adds one to the acting player's
\* legsWon, leaves the other player's legsWon and currentPlayerIndex as they
\* were; legsWon changes in no other step except under resetSet.
C5_FinishOnce ==
    [][/\ (/\ HasLeg(setState) /\ LegOf(setState).isFinished
           /\ HasLeg(setState')
           /\ LegOf(setState').legNumber = LegOf(setState).legNumber)
          => LegOf(setState').isFinished
       /\ LegFinishes =>
            LET index == LegOf(setState).currentPlayerIndex
            IN /\ \E p \in PointsValues : AddTurn(p)
               /\ LegOf(setState').currentPlayerIndex = index
               /\ \A i \in 1..Len(setState.players) :
                    setState'.players[i].legsWon =
                      setState.players[i].legsWon + (IF i = index + 1 THEN 1 ELSE 0)
       /\ setState'.players # setState.players
          => ResetSet \/ (LegFinishes /\ \E p \in PointsValues : AddTurn(p))]_vars

\* the second leg, just won by the second player on a turn of theirs
C5_Witness ==
    /\ HasLeg(setState) /\ LegOf(setState).isFinished
    /\ LegOf(setState).legNumber = 2
    /\ LegOf(setState).currentPlayerIndex = 1
    /\ setState.players[1].legsWon = 1
    /\ setState.players[2].legsWon = 1

\* C6: the set is finished iff some player's legsWon is at least
\* floor(maxLegs/2)+1; winnerPlayerId is non-null iff the set is finished and
\* is then the id of such a player.
C6_SetFinishedIffMajority ==
    LET needed == (setState.maxLegs \div 2) + 1
        Majority == {i \in 1..Len(setState.players) :
                        setState.players[i].legsWon >= needed}
    IN /\ setState.isFinished <=> Majority # {}
       /\ setState.winnerPlayerId # Null <=> setState.isFinished
       /\ setState.isFinished =>
            \E i \in Majority : setState.players[i].id = setState.winnerPlayerId

\* a best-of-three won 2-1 by the second player
C6_Witness ==
    /\ setState.isFinished
    /\ setState.maxLegs = 3
    /\ setState.winnerPlayerId = 2
    /\ setState.players[1].legsWon = 1
    /\ setState.players[2].legsWon = 2

\* C7: once winnerPlayerId is non-null, addTurn, removeLastTurn and
\* startNextLeg change neither winnerPlayerId, isFinished, legsWon nor the
\* current leg; only resetSet clears the winner.
C7_WinnerIsFinal ==
    [][setState.winnerPlayerId # Null =>
         /\ ((\E p \in PointsValues : AddTurn(p)) \/ RemoveLastTurn \/ StartNextLeg)
              => setState' = setState
         /\ (setState'.winnerPlayerId # setState.winnerPlayerId
               \/ setState'.isFinished # setState.isFinished)
              => ResetSet]_vars

\* a finished best-of-three whose last leg holds turns that could be popped
C7_Witness ==
    /\ setState.winnerPlayerId # Null
    /\ setState.maxLegs = 3
    /\ HasLeg(setState)
    /\ LegOf(setState).legNumber < setState.maxLegs
    /\ Len(LegOf(setState).turns) >= 2

\* the Set after addTurn(points) followed by removeLastTurn
AddThenRemove(points) ==
    LET a == addTurn(setState, nextTurnId, points)
    IN removeLastTurn(a.setState, a.nextTurnId).setState

\* C8 as stated: on an unfinished leg, for every points value that does not
\* finish the leg, addTurn followed by removeLastTurn gives back the Set
\* (turns with ids, points and runningScores, currentPlayerIndex, legsWon,
\* flags, winnerPlayerId).
C8_UndoInvertsAnyThrow ==
    \A p \in PointsValues :
       (/\ HasLeg(setState) /\ ~LegOf(setState).isFinished
        /\ ~LegOf(addTurn(setState, nextTurnId, p).setState).isFinished)
          => AddThenRemove(p) = setState

\* C8 amended: the same for every points value that addTurn records and
\* that does not finish the leg (points below the acting player's remaining
\* score).
C8_UndoInvertsRecordedTurn ==
    \A p \in PointsValues :
       (/\ HasLeg(setState) /\ ~LegOf(setState).isFinished
        /\ p < ActingRemaining)
          => AddThenRemove(p) = setState

\* an open leg with turns of both players, a recordable non-finishing throw
\* that the undo takes back, and an overshooting throw after which the undo
\* pops an earlier turn instead
C8_Witness ==
    /\ LegOpen
    /\ Len(LegOf(setState).turns) >= 2
    /\ nextTurnId > 1
    /\ \E p \in PointsValues :
          /\ p < ActingRemaining
          /\ Len(LegOf(addTurn(setState, nextTurnId, p).setState).turns)
               = Len(LegOf(setState).turns) + 1
          /\ AddThenRemove(p) = setState
    /\ \E q \in PointsValues :
          /\ q > ActingRemaining
          /\ AddThenRemove(q) # setState

\* the Set with its current leg replaced by a fresh leg of the same number
FreshLeg(s) == [s EXCEPT !.currentLeg = << createNewLeg(s, LegOf(s).legNumber) >>]

RECURSIVE ReplayTurns(_, _, _)
\* addTurn applied for the points of the given turns, in order
ReplayTurns(s, nextId, turns) ==
    IF turns = <<>> THEN [setState |-> s, nextTurnId |-> nextId]
    ELSE LET r == addTurn(s, nextId, Head(turns).points)
         IN ReplayTurns(r.setState, r.nextTurnId, Tail(turns))

\* C9: after removeLastTurn removes a turn, the leg (ids, playerIds, points,
\* runningScores, currentPlayerIndex, isFinished) is the leg obtained by
\* addTurn of the remaining points on a fresh leg, and the next addTurn
\* behaves the same on both (it hands out the same id).
C9_UndoEqualsReplay ==
    [][(~RemoveIsNoop(setState) /\ RemoveLastTurn) =>
         LET f == ReplayTurns(FreshLeg(setState'), 1, LegOf(setState').turns)
         IN /\ LegOf(setState') = LegOf(f.setState)
            /\ nextTurnId' = f.nextTurnId]_vars

\* C10: the ids of the turns of the current leg are strictly increasing in
\* insertion order (hence pairwise distinct).
C10_TurnIdsIncrease ==
    HasLeg(setState) =>
      \A i, j \in 1..Len(LegOf(setState).turns) :
         i < j => LegOf(setState).turns[i].id < LegOf(setState).turns[j].id

\* startNextLeg applied to the current state
AfterStartNextLeg == startNextLeg(setState, nextTurnId).setState

\* C11: startNextLeg changes nothing when there is no current leg, the
\* current leg is unfinished or the set is finished; whenever canStartNextLeg
\* is true it replaces currentLeg by an empty unfinished leg numbered one
\* higher, with startingScore = gameType and currentPlayerIndex 0, and leaves
\* legsWon, isFinished and winnerPlayerId of the set unchanged.
C11_StartNextLeg ==
    /\ (~HasLeg(setState) \/ ~LegOf(setState).isFinished \/ setState.isFinished)
         => AfterStartNextLeg = setState
    /\ canStartNextLeg(setState) =>
         /\ HasLeg(AfterStartNextLeg)
         /\ LegOf(AfterStartNextLeg) =
              [legNumber |-> LegOf(setState).legNumber + 1,
               startingScore |-> setState.gameType,
               turns |-> <<>>,
               isFinished |-> FALSE,
               currentPlayerIndex |-> 0]
         /\ AfterStartNextLeg.players = setState.players
         /\ AfterStartNextLeg.isFinished = setState.isFinished
         /\ AfterStartNextLeg.winnerPlayerId = setState.winnerPlayerId

\* C12: addTurn without a current leg, on a finished set or on a finished
\* leg returns {legFinished: false, winner: null} and leaves the Set and the
\* id counter unchanged, for every points value.
C12_AddTurnGuard ==
    \A p \in PointsValues :
       (~HasLeg(setState) \/ setState.isFinished \/ LegOf(setState).isFinished)
          => addTurn(setState, nextTurnId, p) =
               [setState |-> setState, nextTurnId |-> nextTurnId, ret |-> NoResult]

\* a finished leg of an unfinished set on which addTurn has been called
\* again (the finishing call returned a winner, the later one did not)
C12_Witness ==
    /\ HasLeg(setState) /\ LegOf(setState).isFinished
    /\ ~setState.isFinished
    /\ ret = NoResult
    /\ nextTurnId = Len(LegOf(setState).turns) + 1

\* C13: removeLastTurn without a current leg, on a leg without turns or on
\* a finished leg changes nothing, so a finishing turn is never undone.
C13_RemoveGuard ==
    (~HasLeg(setState) \/ Len(LegOf(setState).turns) = 0 \/ LegOf(setState).isFinished)
       => removeLastTurn(setState, nextTurnId) =
            [setState |-> setState, nextTurnId |-> nextTurnId]

\* a finished leg whose finishing turn followed other turns
C13_Witness ==
    /\ HasLeg(setState) /\ LegOf(setState).isFinished
    /\ Len(LegOf(setState).turns) >= 3
    /\ nextTurnId > 1
    /\ setState.players[1].legsWon + setState.players[2].legsWon >= 1

\* C14: resetSet sets every legsWon to 0, isFinished to false,
\* winnerPlayerId and currentLeg to null and keeps the players' identity and
\* order, gameType and maxLegs; on the reset Set addTurn, removeLastTurn and
\* startNextLeg change nothing and canStartNextLeg is false.
C14_ResetSet ==
    LET r == resetSet(setState)
    IN /\ \A i \in 1..Len(r.players) : r.players[i].legsWon = 0
       /\ r.isFinished = FALSE
       /\ r.winnerPlayerId = Null
       /\ r.currentLeg = NoLeg
       /\ Len(r.players) = Len(setState.players)
       /\ \A i \in 1..Len(r.players) :
             [r.players[i] EXCEPT !.legsWon = setState.players[i].legsWon]
               = setState.players[i]
       /\ r.gameType = setState.gameType
       /\ r.maxLegs = setState.maxLegs
       /\ \A p \in PointsValues :
             addTurn(r, nextTurnId, p) =
               [setState |-> r, nextTurnId |-> nextTurnId, ret |-> NoResult]
       /\ removeLastTurn(r, nextTurnId) = [setState |-> r, nextTurnId |-> nextTurnId]
       /\ startNextLeg(r, nextTurnId) = [setState |-> r, nextTurnId |-> nextTurnId]
       /\ ~canStartNextLeg(r)

\* a best-of-three reset after a leg was won (the last addTurn returned a
\* winner): no leg, no winner, no legs won, the trimmed name still there
C14_Witness ==
    /\ ~HasLeg(setState)
    /\ ret.legFinished
    /\ setState.maxLegs = 3
    /\ ~setState.isFinished
    /\ setState.winnerPlayerId = Null
    /\ \A i \in 1..Len(setState.players) : setState.players[i].legsWon = 0
    /\ setState.players[2].name = <<"B", "o", "b">>

\* C16: after removeLastTurn removes a turn, the k-th remaining turn has id
\* k and the next recorded turn will receive id n+1, n the number of
\* remaining turns.
C16_IdsReassigned ==
    [][(/\ HasLeg(setState) /\ Len(LegOf(setState).turns) > 0
        /\ ~LegOf(setState).isFinished
        /\ RemoveLastTurn)
         => /\ \A k \in 1..Len(LegOf(setState').turns) :
                 LegOf(setState').turns[k].id = k
            /\ nextTurnId' = Len(LegOf(setState').turns) + 1]_vars

\* C17: the k-th turn (from 0) of the current leg was thrown by the player
\* at index k mod 2, and while the leg is unfinished currentPlayerIndex is
\* the number of turns mod 2.
C17_StrictRotation ==
    HasLeg(setState) =>
      LET leg == LegOf(setState)
      IN /\ \A k \in 1..Len(leg.turns) :
               leg.turns[k].playerId = setState.players[((k - 1) % 2) + 1].id
         /\ ~leg.isFinished => leg.currentPlayerIndex = Len(leg.turns) % 2

\* a rewound leg (the counter is back at 1) with three turns left, so the
\* second player is next
C17_Witness ==
    /\ HasLeg(setState) /\ ~LegOf(setState).isFinished
    /\ nextTurnId = 1
    /\ Len(LegOf(setState).turns) = 3
    /\ LegOf(setState).currentPlayerIndex = 1

\* C18: with a current leg, the legsWon of both players add up to the
\* number of finished legs: legNumber if the current leg is finished,
\* legNumber - 1 if not.
C18_LegsWonCountsLegs ==
    HasLeg(setState) =>
      setState.players[1].legsWon + setState.players[2].legsWon =
        LegOf(setState).legNumber - (IF LegOf(setState).isFinished THEN 0 ELSE 1)

\* the third leg in progress at one leg each
C18_Witness ==
    /\ HasLeg(setState) /\ ~LegOf(setState).isFinished
    /\ LegOf(setState).legNumber = 3
    /\ Len(LegOf(setState).turns) >= 1
    /\ setState.players[1].legsWon = 1
    /\ setState.players[2].legsWon = 1

\* C19: legNumber never exceeds maxLegs, and there is no state in which the
\* current leg is finished, the set is not finished and startNextLeg does
\* not start another leg.
C19_MatchCompletes ==
    HasLeg(setState) =>
      /\ LegOf(setState).legNumber <= setState.maxLegs
      /\ ~(/\ LegOf(setState).isFinished
           /\ ~setState.isFinished
           /\ AfterStartNextLeg = setState)

\* C20: never do both players have floor(maxLegs/2)+1 legs, and when the
\* set is finished winnerPlayerId is the thrower of the last turn of the
\* current leg.
C20_SingleWinner ==
    LET needed == (setState.maxLegs \div 2) + 1
    IN /\ ~(\A i \in 1..Len(setState.players) : setState.players[i].legsWon >= needed)
       /\ setState.isFinished =>
            /\ HasLeg(setState) /\ Len(LegOf(setState).turns) > 0
            /\ setState.winnerPlayerId = LastThrower(setState)

\* a set of two legs won 2-0 by the second player
C20_Witness ==
    /\ setState.isFinished
    /\ setState.maxLegs = 2
    /\ setState.winnerPlayerId = 2
    /\ HasLeg(setState)
    /\ LastThrower(setState) = 2

\* the ids of the turns of a Set's current leg
TurnIds(s) == {LegOf(s).turns[k].id : k \in 1..Len(LegOf(s).turns)}

\* C15: startNewSet returns a fresh Set (players 1 and 2 without legs won,
\* leg 1 without turns, startingScore = gameType, currentPlayerIndex 0,
\* nothing finished, no winner); building it, or operating on it, while
\* another Set has an unfinished leg in progress changes neither that Set
\* nor the uniqueness of the ids its later turns receive.
C15_StartNewSetIsolated ==
    [][/\ StartOtherSet =>
            LET n == otherSet'[1]
            IN /\ Len(n.players) = 2
               /\ \A i \in 1..2 : n.players[i].id = i /\ n.players[i].legsWon = 0
               /\ n.currentLeg = << [legNumber |-> 1,
                                     startingScore |-> n.gameType,
                                     turns |-> <<>>,
                                     isFinished |-> FALSE,
                                     currentPlayerIndex |-> 0] >>
               /\ ~n.isFinished
               /\ n.winnerPlayerId = Null
       /\ (OtherStep /\ HasLeg(setState) /\ ~LegOf(setState).isFinished) =>
            /\ setState' = setState
            /\ nextTurnId \notin TurnIds(setState)
                 => nextTurnId' \notin TurnIds(setState')]_vars

=============================================================================
